---- MODULE Spec2Model ----
(***************************************************************************)
(* Model of the audio preloader (SmartAudioPreloader) and of the trial     *)
(* runner (CantoneseExperiment) of public/experiment.js.                   *)
(*                                                                         *)
(* JavaScript runs one job at a time: the synchronous part of a call runs  *)
(* to its first await without interleaving, and every continuation after   *)
(* an await is a job of its own.  Each action below is one such job.       *)
(*                                                                         *)
(* A promise chain built by loadAudio is a "load", named by its handle (its*)
(* index in loads).  The decoded buffer a load produces is named by the    *)
(* handle of the load, so that two decodes of the same id give two         *)
(* distinguishable buffers.  Handle 0 stands for "no entry" in a Map and   *)
(* for a loadAudio promise that was rejected before any fetch.             *)
(***************************************************************************)
EXTENDS Integers, Sequences, FiniteSets, TLC

\* ---------------------------------------------------------------- bounds
NumStimuli == 26        \* ids are 1..NumStimuli (the program uses 75)
NumCallers == 3         \* calls made in one behaviour of SpecLoads
MaxWindowLoads == 2     \* fetch chains built in one behaviour of SpecWindow
NumLoadIds == 1         \* ids the callers of SpecLoads ask for
MaxKeepBehind == 2      \* keepBehind arguments tried: 0..MaxKeepBehind
MaxFailedIds == 1       \* ids whose loads fail in one behaviour
NumRequests == 2        \* requests handled in one behaviour of SpecBackend
MaxSubmitFailures == 2  \* the submissions of the last MaxSubmitFailures trials may fail
ShuffleLen == 4         \* length of the array shuffled in SpecShuffle
EvictLen == 8           \* length of the sequences of SpecEvict

\* ------------------------------------------------------ program constants
BufferAhead == 3        \* bufferAhead
EvictMargin == 3        \* the "+ 3" of clearOldBuffers
KeepBehindDefault == 2  \* keepBehind = 2
EvictEvery == 10        \* i % 10 === 0

Ids == 1..NumStimuli
Callers == 1..NumCallers
\* The frame of the one caller of SpecWindow and of the trial runner.
Runner == CHOOSE c \in Callers : \A d \in Callers : c <= d

VARIABLES
    audioBuffers,      \* Map id -> buffer; 0 = no entry
    loadingPromises,   \* Map id -> handle of the promise stored; 0 = no entry
    failedLoads,       \* Set of ids
    loadedCount,
    loads,             \* the promise chains built by loadAudio, by handle
    isPaused,          \* CantoneseExperiment.isPaused (overlay shown)
    frames,            \* pending and settled async calls, one per caller
    sequence,          \* the sequence handed to the preloader's methods
    runner,            \* position of init / runExperiment / runTrial; waited:
                       \* a pause notification was made for the current trial
    results,           \* CantoneseExperiment.results
    localStore,        \* trial numbers held in localStorage
    posts,             \* the POSTs of /api/trial, in order, with their outcome
    db,                \* the worker's database: tables sessions and trials
    requests,          \* the requests handled by the worker, by slot
    event              \* what the last job did (history variable)

pvars == <<audioBuffers, loadingPromises, failedLoads, loadedCount, loads>>
rvars == <<runner, results, localStore, posts>>
bvars == <<db, requests>>
vars == <<audioBuffers, loadingPromises, failedLoads, loadedCount, loads,
          isPaused, frames, sequence, runner, results, localStore, posts,
          db, requests, event>>

Min(a, b) == IF a < b THEN a ELSE b
Max(a, b) == IF a > b THEN a ELSE b
Range(s) == {s[k] : k \in DOMAIN s}

\* Array.prototype.slice on 0-based positions: a negative bound counts from
\* the end, both bounds are clamped to the array.
SliceIdx(k, len) == IF k < 0 THEN Max(len + k, 0) ELSE Min(k, len)

Slice(s, start, end) ==
    LET a == SliceIdx(start, Len(s))
        b == SliceIdx(end, Len(s))
    IN  IF a >= b THEN <<>> ELSE SubSeq(s, a + 1, b)

NoEvent == [op |-> "none"]

\* ------------------------------------------------------------- loadAudio
\* The preloader state a synchronous section threads through its calls.
PState == [loads |-> loads, lp |-> loadingPromises, hs |-> <<>>]

\* loadAudio without the failedLoads test: a failed id is fetched again.
LoadAudio_NoFailedCheck(st, id) ==
    LET h == Len(st.loads) + 1
    IN  [loads |-> Append(st.loads, [id |-> id, st |-> "fetching"]),
         lp |-> [st.lp EXCEPT ![id] = h],
         hs |-> Append(st.hs, h)]

\* The synchronous part of loadAudio(id): a rejection when id has failed
\* before (handle 0), else a new fetch chain stored under id.
LoadAudio(st, id) ==
    IF id \in failedLoads
    THEN [st EXCEPT !.hs = Append(@, 0)]
    ELSE LET h == Len(st.loads) + 1
         IN  [loads |-> Append(st.loads, [id |-> id, st |-> "fetching"]),
              lp |-> [st.lp EXCEPT ![id] = h],
              hs |-> Append(st.hs, h)]

\* ids.map / ids.forEach of loadAudio, in order.
RECURSIVE LoadEach(_, _)
LoadEach(st, ids) ==
    IF ids = <<>> THEN st ELSE LoadEach(LoadAudio(st, Head(ids)), Tail(ids))

\* .then(audioBuffer => ...): the decoded buffer enters the cache.
FetchDecodeSucceeds(h) ==
    /\ loads[h].st = "fetching"
    /\ audioBuffers' = [audioBuffers EXCEPT ![loads[h].id] = h]
    /\ loadedCount' = loadedCount + 1
    /\ loads' = [loads EXCEPT ![h].st = "decoded"]
    /\ UNCHANGED <<loadingPromises, failedLoads>>

\* A catch callback that caches what it has.
FetchDecodeFails_Caches(h) ==
    /\ loads[h].st = "fetching"
    /\ Cardinality(failedLoads \cup {loads[h].id}) <= MaxFailedIds
    /\ failedLoads' = failedLoads \cup {loads[h].id}
    /\ audioBuffers' = [audioBuffers EXCEPT ![loads[h].id] = h]
    /\ loads' = [loads EXCEPT ![h].st = "caught"]
    /\ UNCHANGED <<loadingPromises, loadedCount>>

\* .catch(error => ...): fetch error, non-ok response or decode error.
FetchDecodeFails(h) ==
    /\ loads[h].st = "fetching"
    /\ Cardinality(failedLoads \cup {loads[h].id}) <= MaxFailedIds
    /\ failedLoads' = failedLoads \cup {loads[h].id}
    /\ loads' = [loads EXCEPT ![h].st = "caught"]
    /\ UNCHANGED <<audioBuffers, loadingPromises, loadedCount>>

\* .finally(() => loadingPromises.delete(stimulusId)): the chain settles.
\* When it rejects, the catch block of the loadAudio that built it runs next
\* (it is the first to await the chain) and deletes the same key again.  No
\* entry for the id can be stored between the two deletions, the id being in
\* failedLoads by then, so the two are one step here.
LoadFinally(h) ==
    /\ loads[h].st \in {"decoded", "caught"}
    /\ loadingPromises' = [loadingPromises EXCEPT ![loads[h].id] = 0]
    /\ loads' = [loads EXCEPT
                   ![h].st = IF loads[h].st = "decoded" THEN "resolved" ELSE "thrown"]
    /\ UNCHANGED <<audioBuffers, failedLoads, loadedCount>>

\* An await that does not wait for the chain to settle.
Fulfilled_Early(h) == h # 0

\* A waiter of load h can go on once the chain has settled.  Handle 0 is
\* rejected from the start.
Fulfilled(h) == IF h = 0 THEN FALSE ELSE loads[h].st = "resolved"
Rejected(h) == IF h = 0 THEN TRUE ELSE loads[h].st = "thrown"

\* ---------------------------------------------------------- preloadAhead
\* preloadAhead with a batch that starts one position late.
NextBatch_Late(seq, idx) ==
    Slice(seq, idx + BufferAhead + 1, Min(idx + BufferAhead + BufferAhead, Len(seq)))

\* preloadAhead with a batch twice as long.
NextBatch_Wide(seq, idx) ==
    Slice(seq, idx + BufferAhead,
          Min(idx + BufferAhead + BufferAhead + BufferAhead, Len(seq)))

NextBatch(seq, idx) ==
    Slice(seq, idx + BufferAhead, Min(idx + BufferAhead + BufferAhead, Len(seq)))

ToLoad(seq, idx) ==
    SelectSeq(NextBatch(seq, idx),
              LAMBDA id : audioBuffers[id] = 0 /\ loadingPromises[id] = 0)

\* preloadAhead has no await: the whole body is one job.
PreloadAhead(seq, idx) ==
    LET r == LoadEach(PState, ToLoad(seq, idx))
    IN  /\ loads' = r.loads
        /\ loadingPromises' = r.lp
        /\ UNCHANGED <<audioBuffers, failedLoads, loadedCount>>

\* ------------------------------------------------------- clearOldBuffers
\* clearOldBuffers that ignores keepBehind.
KeepStimuli_NoKeepBehind(seq, idx, keepBehind) ==
    Range(Slice(seq, idx, idx + BufferAhead + EvictMargin))

\* clearOldBuffers that keeps every id of the sequence.
KeepStimuli_All(seq, idx, keepBehind) == Range(seq)

KeepStimuli(seq, idx, keepBehind) ==
    Range(Slice(seq, Max(0, idx - keepBehind), idx + BufferAhead + EvictMargin))

ClearOldBuffers(seq, idx, keepBehind) ==
    /\ audioBuffers' = [id \in Ids |->
                          IF id \in KeepStimuli(seq, idx, keepBehind)
                          THEN audioBuffers[id] ELSE 0]
    /\ UNCHANGED <<loadingPromises, failedLoads, loadedCount, loads>>

\* ------------------------------------------------- async calls (frames)
\* One frame per caller: the async call the caller has made, where it is
\* suspended (pc), and how it settled (res, val, err).  br, fa, lh, uf and nl
\* record what the call met and did when it was made: the branch taken,
\* whether the id was in failedLoads, the handle stored for the id in
\* loadingPromises, whether a fetch of the id was outstanding, the number
\* of fetch chains it built.
IdleFrame ==
    [op |-> "idle", pc |-> "idle", id |-> 0, idx |-> 0, h |-> 0, hs |-> <<>>,
     announce |-> FALSE, nPause |-> 0, nResume |-> 0, pid |-> 0,
     res |-> "none", val |-> 0, err |-> "none", errh |-> 0,
     br |-> "none", fa |-> FALSE, lh |-> 0, nl |-> 0, uf |-> FALSE]

\* A fetch chain of id has been started and has not settled, and id is not
\* cached.
Outstanding(id) ==
    /\ id \in Ids
    /\ audioBuffers[id] = 0
    /\ \E h \in DOMAIN loads :
          loads[h].id = id /\ loads[h].st \in {"fetching", "decoded", "caught"}

NewFrame(op, id) ==
    [IdleFrame EXCEPT !.op = op, !.id = id, !.fa = (id \in failedLoads),
                      !.lh = IF id \in Ids THEN loadingPromises[id] ELSE 0,
                      !.uf = Outstanding(id)]

Settle(f, val) == [f EXCEPT !.pc = "done", !.res = "ok", !.val = val]
Throw(f, err, h) == [f EXCEPT !.pc = "done", !.res = "err", !.err = err, !.errh = h]

\* onPauseCallback(stimulusId) -> showPauseScreen: isPaused = true.
Paused(f, id) == [f EXCEPT !.nPause = @ + 1, !.pid = id]
\* onResumeCallback() -> hidePauseScreen: isPaused = false.
Resumed(f) == [f EXCEPT !.nResume = @ + 1]

\* The synchronous part of a call, as the frame it leaves, the preloader
\* state it leaves and the pause flag it leaves.
Outcome(f, st, paused) == [f |-> f, st |-> st, paused |-> paused]

Apply(c, r) ==
    /\ frames' = [frames EXCEPT ![c] = r.f]
    /\ loads' = r.st.loads
    /\ loadingPromises' = r.st.lp
    /\ isPaused' = r.paused
    /\ UNCHANGED <<audioBuffers, failedLoads, loadedCount>>

\* loadAudio(id) called by a caller that awaits it.
LoadAudioCall(f, id) ==
    LET r == LoadAudio(PState, id)
    IN  Outcome([f EXCEPT !.pc = "la_wait", !.h = r.hs[1],
                          !.nl = IF r.hs[1] # 0 THEN 1 ELSE 0],
                r, isPaused)

\* getAudioBuffer that notifies whatever showPauseUI is.
GetAudioBuffer_Announcing(f, paused, id, announce) ==
    LET w == Paused([f EXCEPT !.announce = TRUE], id)
    IN  IF audioBuffers[id] # 0
        THEN Outcome(Settle([f EXCEPT !.br = "cached"], audioBuffers[id]),
                     PState, paused)
        ELSE IF loadingPromises[id] # 0
        THEN Outcome([w EXCEPT !.pc = "gab_wait", !.h = loadingPromises[id],
                               !.br = "inflight"],
                     PState, TRUE)
        ELSE LET r == LoadAudio(PState, id)
             IN  Outcome([w EXCEPT !.pc = "gab_wait", !.h = r.hs[1],
                                   !.br = "emergency",
                                   !.nl = IF r.hs[1] # 0 THEN 1 ELSE 0],
                         r, TRUE)

\* getAudioBuffer(stimulusId, showPauseUI) up to its first await.
GetAudioBuffer(f, paused, id, announce) ==
    LET g == [f EXCEPT !.announce = announce]
        w == IF announce THEN Paused(g, id) ELSE g
    IN  IF audioBuffers[id] # 0
        THEN Outcome(Settle([g EXCEPT !.br = "cached"], audioBuffers[id]),
                     PState, paused)
        ELSE IF loadingPromises[id] # 0
        THEN Outcome([w EXCEPT !.pc = "gab_wait", !.h = loadingPromises[id],
                               !.br = "inflight"],
                     PState, announce \/ paused)
        ELSE LET r == LoadAudio(PState, id)
             IN  Outcome([w EXCEPT !.pc = "gab_wait", !.h = r.hs[1],
                                   !.br = "emergency",
                                   !.nl = IF r.hs[1] # 0 THEN 1 ELSE 0],
                         r, announce \/ paused)

\* ensureNextTrialReady that returns true without waiting for the buffer.
EnsureNextTrialReady_NoWait(f, seq, idx) ==
    Outcome(Settle([f EXCEPT !.br = "ready"], 0), PState, isPaused)

\* ensureNextTrialReady(sequence, currentIndex) up to its first await.
EnsureNextTrialReady(f, seq, idx) ==
    IF idx >= Len(seq)
    THEN Outcome(Settle([f EXCEPT !.br = "past"], 0), PState, isPaused)
    ELSE LET id == seq[idx + 1]
             g == [f EXCEPT !.id = id, !.fa = (id \in failedLoads),
                            !.lh = loadingPromises[id],
                            !.uf = Outstanding(id)]
         IN  IF audioBuffers[id] # 0
             THEN Outcome(Settle([g EXCEPT !.br = "ready"], 0), PState, isPaused)
             ELSE GetAudioBuffer(Paused(g, id), TRUE, id, FALSE)

\* preloadInitial(sequence) up to await Promise.all(...).
PreloadInitial(f, seq) ==
    LET batch == Slice(seq, 0, BufferAhead)
        r == LoadEach(PState, batch)
    IN  Outcome([f EXCEPT !.pc = "pi_wait", !.hs = r.hs,
                          !.nl = Cardinality({k \in DOMAIN r.hs : r.hs[k] # 0})],
                r, isPaused)

\* --------------------------------------------------------- continuations
\* After "await loadPromise" / "await this.loadAudio(...)" in getAudioBuffer.
ResumeGetAudioBuffer(c) ==
    LET f == frames[c]
        g == IF f.announce THEN Resumed(f) ELSE f
    IN  /\ f.pc = "gab_wait"
        /\ \/ /\ Fulfilled(f.h)
              /\ frames' = [frames EXCEPT ![c] =
                    IF f.op = "ensureNextTrialReady"
                    THEN [g EXCEPT !.pc = "enr_cont", !.val = f.h]
                    ELSE Settle(g, f.h)]
              /\ isPaused' = IF f.announce THEN FALSE ELSE isPaused
           \/ /\ Rejected(f.h)
              /\ frames' = [frames EXCEPT ![c] =
                    IF f.h = 0 THEN Throw(f, "PreviouslyFailed", 0)
                    ELSE Throw(f, "LoadFailed", f.h)]
              /\ UNCHANGED isPaused
        /\ UNCHANGED pvars

\* An ensureNextTrialReady that hides the pause UI and never returns.
ResumeEnsureNextTrialReady_Hangs(c) ==
    /\ frames[c].pc = "enr_cont"
    /\ isPaused
    /\ UNCHANGED frames
    /\ isPaused' = FALSE
    /\ UNCHANGED pvars

\* After "await this.getAudioBuffer(nextStimId, false)" in ensureNextTrialReady.
ResumeEnsureNextTrialReady(c) ==
    /\ frames[c].pc = "enr_cont"
    /\ frames' = [frames EXCEPT ![c] = Settle(Resumed(frames[c]), 0)]
    /\ isPaused' = FALSE
    /\ UNCHANGED pvars

\* After "return await loadPromise" in a loadAudio the caller awaits.
ResumeLoadAudio(c) ==
    LET f == frames[c]
    IN  /\ f.pc = "la_wait"
        /\ \/ /\ Fulfilled(f.h)
              /\ frames' = [frames EXCEPT ![c] = Settle(f, f.h)]
           \/ /\ Rejected(f.h)
              /\ frames' = [frames EXCEPT ![c] =
                    IF f.h = 0 THEN Throw(f, "PreviouslyFailed", 0)
                    ELSE Throw(f, "LoadFailed", f.h)]
        /\ UNCHANGED <<pvars, isPaused>>

\* Promise.any in the place of Promise.all.
AllFulfilled_Any(hs) == \E k \in DOMAIN hs : Fulfilled(hs[k])

\* Promise.allSettled in the place of Promise.all.
AllFulfilled_Settled(hs) == \A k \in DOMAIN hs : Fulfilled(hs[k]) \/ Rejected(hs[k])

\* Promise.all settles: fulfilled when every loadAudio is, rejected as soon
\* as one of them is; the catch block replaces the error by the aggregate one.
AllFulfilled(hs) == \A k \in DOMAIN hs : Fulfilled(hs[k])
AnyRejected(hs) == \E k \in DOMAIN hs : Rejected(hs[k])

ResumePreloadInitial(c) ==
    LET f == frames[c]
    IN  /\ f.pc = "pi_wait"
        /\ \/ /\ AllFulfilled(f.hs)
              /\ frames' = [frames EXCEPT ![c] = Settle(f, 0)]
           \/ /\ AnyRejected(f.hs)
              /\ frames' = [frames EXCEPT ![c] = Throw(f, "InitialBatchFailed", 0)]
        /\ UNCHANGED <<pvars, isPaused>>

\* ------------------------------------------------------- the load chains
\* The jobs of the promise chains and of the suspended calls; they are the
\* same whoever made the calls.
Chain(h) ==
    \/ FetchDecodeSucceeds(h)
    \/ FetchDecodeFails(h)
    \/ LoadFinally(h)

LoadStep ==
    /\ \E h \in DOMAIN loads : Chain(h)
    /\ event' = NoEvent
    /\ UNCHANGED <<isPaused, frames, sequence, bvars, rvars>>

GetAudioBufferStep ==
    /\ \E c \in Callers : ResumeGetAudioBuffer(c)
    /\ event' = NoEvent
    /\ UNCHANGED <<sequence, bvars, rvars>>

EnsureNextTrialReadyStep ==
    /\ \E c \in Callers : ResumeEnsureNextTrialReady(c)
    /\ event' = NoEvent
    /\ UNCHANGED <<sequence, bvars, rvars>>

LoadAudioStep ==
    /\ \E c \in Callers : ResumeLoadAudio(c)
    /\ event' = NoEvent
    /\ UNCHANGED <<sequence, bvars, rvars>>

PreloadInitialStep ==
    /\ \E c \in Callers : ResumePreloadInitial(c)
    /\ event' = NoEvent
    /\ UNCHANGED <<sequence, bvars, rvars>>

\* ------------------------------------------- the preloader under a client
\* A client that calls the public methods of SmartAudioPreloader with any
\* arguments; cap bounds the fetch chains of a behaviour.  Which caller makes
\* a call makes no difference to the preloader, so the callers call in the
\* order of their numbers.
\* The callbacks of a chain (then or catch, then finally) run in one microtask
\* checkpoint, with nothing queued between them: a call of the client or of
\* the runner finds no chain between two of its callbacks.
MidChain == \E h \in DOMAIN loads : loads[h].st \in {"decoded", "caught"}

Idle(c) ==
    /\ frames[c].op = "idle"
    /\ \A d \in Callers : d < c => frames[d].op # "idle"
    /\ ~MidChain
Within(r, cap) == Len(r.st.loads) <= cap

ApiLoadAudio(c, id, cap) ==
    LET r == LoadAudioCall(NewFrame("loadAudio", id), id)
    IN  /\ Idle(c) /\ Within(r, cap)
        /\ Apply(c, r)
        /\ event' = NoEvent
        /\ UNCHANGED <<sequence, bvars, rvars>>

ApiGetAudioBuffer(c, id, announce, cap) ==
    LET r == GetAudioBuffer(NewFrame("getAudioBuffer", id), isPaused, id, announce)
    IN  /\ Idle(c) /\ Within(r, cap)
        /\ Apply(c, r)
        /\ event' = NoEvent
        /\ UNCHANGED <<sequence, bvars, rvars>>

ApiEnsureNextTrialReady(c, idx, cap) ==
    LET f == [NewFrame("ensureNextTrialReady", 0) EXCEPT !.idx = idx]
        r == EnsureNextTrialReady(f, sequence, idx)
    IN  /\ Idle(c) /\ Within(r, cap)
        /\ Apply(c, r)
        /\ event' = NoEvent
        /\ UNCHANGED <<sequence, bvars, rvars>>

ApiPreloadInitial(c, cap) ==
    LET r == PreloadInitial(NewFrame("preloadInitial", 0), sequence)
    IN  /\ Idle(c) /\ Within(r, cap)
        /\ Apply(c, r)
        /\ event' = NoEvent
        /\ UNCHANGED <<sequence, bvars, rvars>>

CachedIds == {id \in Ids : audioBuffers[id] # 0}
ListedIds == {id \in Ids : loadingPromises[id] # 0}

ApiPreloadAhead(idx, cap) ==
    /\ ~MidChain
    /\ Len(LoadEach(PState, ToLoad(sequence, idx)).loads) <= cap
    /\ PreloadAhead(sequence, idx)
    /\ event' = [op |-> "preloadAhead", n |-> Len(ToLoad(sequence, idx))]
    /\ UNCHANGED <<isPaused, frames, sequence, bvars, rvars>>

\* clearOldBuffers is synchronous; it is called, as by runExperiment, from a
\* task of its own by a client that is not suspended in a call.
ApiClearOldBuffers(idx, keepBehind) ==
    /\ \A c \in Callers : frames[c].op = "idle"
    /\ ~MidChain
    /\ ClearOldBuffers(sequence, idx, keepBehind)
    /\ event' = [op |-> "clearOldBuffers",
                 n |-> Cardinality(CachedIds \ KeepStimuli(sequence, idx, keepBehind))]
    /\ UNCHANGED <<isPaused, frames, sequence, bvars, rvars>>

\* The caller's own continuation after its await: it takes the result.
ApiTakeResult(c) ==
    /\ frames[c].pc = "done"
    /\ frames' = [frames EXCEPT ![c] = IdleFrame]
    /\ event' = NoEvent
    /\ UNCHANGED <<pvars, isPaused, sequence, bvars, rvars>>

RunnerOff == [pc |-> "off", i |-> 0, waited |-> FALSE]

\* ------------------------------------------------- the worker's data
\* The session ids, trial numbers and timestamps found in request bodies.
SessionIds == {1, 2}
TrialNumbers == {1, 2}
Timestamps == {1, 2}
Requests == 1..NumRequests

\* An absent field of the request body, NULL in a column.
Missing == 0

\* The tables after the migration: no session row, no trial row.  sessions
\* maps an id to its row, trials lists the rows in the order of their
\* autoincrement ids.
EmptyDb == [sessions |-> <<>>, trials |-> <<>>]

IdleRequest ==
    [pc |-> "idle", sessionId |-> Missing, trialNumber |-> Missing,
     timestamp |-> Missing, status |-> 0, err |-> "none", dup |-> FALSE]

InitPreloader ==
    /\ audioBuffers = [id \in Ids |-> 0]
    /\ loadingPromises = [id \in Ids |-> 0]
    /\ failedLoads = {}
    /\ loadedCount = 0
    /\ loads = <<>>
    /\ isPaused = FALSE
    /\ frames = [c \in Callers |-> IdleFrame]
    /\ results = <<>>
    /\ localStore = {}
    /\ posts = <<>>
    /\ db = EmptyDb
    /\ requests = [r \in Requests |-> IdleRequest]
    /\ event = NoEvent

\* SpecLoads: overlapping callers of loadAudio and getAudioBuffer.  Each
\* caller makes one call and keeps its result; a later call is the call of
\* the next caller.
\* The ids are names only: a call asks for an id already asked for or for the
\* lowest one not yet asked for.
LoadIds ==
    {id \in 1..NumLoadIds :
        \A j \in 1..(id - 1) : \E c \in Callers : frames[c].id = j}

InitLoads ==
    /\ InitPreloader
    /\ sequence = <<>>
    /\ runner = RunnerOff

NextLoads ==
    \/ LoadStep
    \/ GetAudioBufferStep
    \/ LoadAudioStep
    \/ \E c \in Callers, id \in LoadIds : ApiLoadAudio(c, id, NumCallers)
    \/ \E c \in Callers, id \in LoadIds, a \in BOOLEAN :
          ApiGetAudioBuffer(c, id, a, NumCallers)

SpecLoads == InitLoads /\ [][NextLoads]_vars

\* SpecWindow: one caller driving the window operations over a sequence,
\* with the loads of preloadAhead running in the background.
WindowSequences ==
    { <<1, 2, 1, 2, 1, 2, 3, 3>> }

Indexes == 0..Len(sequence)

InitWindow ==
    /\ InitPreloader
    /\ sequence \in WindowSequences
    /\ runner = RunnerOff

NextWindow ==
    \/ LoadStep
    \/ GetAudioBufferStep
    \/ EnsureNextTrialReadyStep
    \/ \E idx \in Indexes : ApiPreloadAhead(idx, MaxWindowLoads)
    \/ \E idx \in Indexes : ApiEnsureNextTrialReady(Runner, idx, MaxWindowLoads)
    \/ \E idx \in Indexes, kb \in 0..MaxKeepBehind : ApiClearOldBuffers(idx, kb)
    \/ ApiTakeResult(Runner)

SpecWindow == InitWindow /\ [][NextWindow]_vars

\* SpecEvict: one call of clearOldBuffers, over every cache content, index
\* and keepBehind.  The cache starts as a set of loads that have resolved
\* leaves it; the event records the arguments of the call.
EvictSequences ==
    { [k \in 1..EvictLen |-> EvictLen + 1 - k],
      [k \in 1..EvictLen |-> (k % BufferAhead) + 1] }

\* The handle of id when the ids of S were loaded in increasing order.
HandleIn(S, id) == Cardinality({j \in S : j <= id})

InitEvict ==
    /\ sequence \in EvictSequences
    /\ \E S \in SUBSET Range(sequence) :
          /\ loads = [h \in 1..Cardinality(S) |->
                        [id |-> CHOOSE id \in S : HandleIn(S, id) = h,
                         st |-> "resolved"]]
          /\ audioBuffers = [id \in Ids |-> IF id \in S THEN HandleIn(S, id) ELSE 0]
          /\ loadedCount = Cardinality(S)
    /\ loadingPromises = [id \in Ids |-> 0]
    /\ failedLoads = {}
    /\ isPaused = FALSE
    /\ frames = [c \in Callers |-> IdleFrame]
    /\ results = <<>>
    /\ localStore = {}
    /\ posts = <<>>
    /\ db = EmptyDb
    /\ requests = [r \in Requests |-> IdleRequest]
    /\ event = NoEvent
    /\ runner = RunnerOff

EvictCall(idx, keepBehind) ==
    /\ event = NoEvent
    /\ ClearOldBuffers(sequence, idx, keepBehind)
    /\ event' = [op |-> "clearOldBuffers", idx |-> idx, kb |-> keepBehind,
                 n |-> Cardinality(CachedIds \ KeepStimuli(sequence, idx, keepBehind))]
    /\ UNCHANGED <<isPaused, frames, sequence, bvars, rvars>>

NextEvict == \E idx \in Indexes, kb \in 0..MaxKeepBehind : EvictCall(idx, kb)

SpecEvict == InitEvict /\ [][NextEvict]_vars

\* -------------------------------------------------------- the trial runner
\* init(), runExperiment() and runTrial() of CantoneseExperiment, one action
\* per job.  runner.i is the loop variable i of runExperiment.

\* The ids are names only: one permutation stands for all of them here.
RunnerSequences ==
    { [k \in 1..NumStimuli |-> NumStimuli + 1 - k] }

At(pc) == runner.pc = pc
Goto(pc) == runner' = [runner EXCEPT !.pc = pc]
Returned == frames[Runner].pc = "done" /\ frames[Runner].res = "ok"
Threw == frames[Runner].pc = "done" /\ frames[Runner].res = "err"
StimulusId == sequence[runner.i + 1]

\* init up to "await this.audioPreloader.preloadInitial(this.sequence)".
RunInit ==
    /\ At("start")
    /\ Apply(Runner, PreloadInitial(NewFrame("preloadInitial", 0), sequence))
    /\ Goto("preload")
    /\ event' = NoEvent
    /\ UNCHANGED <<sequence, bvars, results, localStore, posts>>

\* fetch('characters.json') fails: init rejects before anything is loaded.
RunInitFetchFails ==
    /\ At("start")
    /\ Goto("failed")
    /\ event' = NoEvent
    /\ UNCHANGED <<pvars, isPaused, frames, sequence, bvars, results, localStore, posts>>

\* An awaited call of the runner threw: nothing catches it, init rejects.
RunThrows ==
    /\ runner.pc \in {"preload", "ensure", "buffer"}
    /\ Threw
    /\ Goto("failed")
    /\ frames' = [frames EXCEPT ![Runner] = IdleFrame]
    /\ event' = [op |-> "throw", err |-> frames[Runner].err]
    /\ UNCHANGED <<pvars, isPaused, sequence, bvars, results, localStore, posts>>

\* preloadInitial returned: hideLoadingScreen, showConsent.
RunPreloaded ==
    /\ At("preload") /\ Returned
    /\ Goto("consent")
    /\ frames' = [frames EXCEPT ![Runner] = IdleFrame]
    /\ event' = NoEvent
    /\ UNCHANGED <<pvars, isPaused, sequence, bvars, results, localStore, posts>>

\* The consent button is clicked: showInstructions.
RunConsent ==
    /\ At("consent")
    /\ Goto("instructions")
    /\ event' = NoEvent
    /\ UNCHANGED <<pvars, isPaused, frames, sequence, bvars, results, localStore, posts>>

\* Space is pressed: showBlank(500), then runExperiment starts with i = 0.
RunInstructions ==
    /\ At("instructions")
    /\ runner' = [pc |-> "blank", i |-> 0, waited |-> FALSE]
    /\ event' = NoEvent
    /\ UNCHANGED <<pvars, isPaused, frames, sequence, bvars, results, localStore, posts>>

\* The loop test and, inside the loop, the call of ensureNextTrialReady.
RunEnsure ==
    /\ At("blank") /\ runner.i < Len(sequence)
    /\ ~MidChain
    /\ Apply(Runner, EnsureNextTrialReady(
                [NewFrame("ensureNextTrialReady", 0) EXCEPT !.idx = runner.i],
                sequence, runner.i))
    /\ Goto("ensure")
    /\ event' = NoEvent
    /\ UNCHANGED <<sequence, bvars, results, localStore, posts>>

\* ensureNextTrialReady returned: preloadAhead (not awaited), updateProgress,
\* and runTrial up to "await this.sleep(1000)".
RunPreloadAhead ==
    /\ At("ensure") /\ Returned
    /\ ~MidChain
    /\ PreloadAhead(sequence, runner.i)
    /\ runner' = [runner EXCEPT !.pc = "character",
                                !.waited = frames[Runner].nPause > 0]
    /\ frames' = [frames EXCEPT ![Runner] = IdleFrame]
    /\ event' = [op |-> "preloadAhead", n |-> Len(ToLoad(sequence, runner.i))]
    /\ UNCHANGED <<isPaused, sequence, bvars, results, localStore, posts>>

\* The second is over: getAudioBuffer(stimulusId), showPauseUI by default.
RunGetAudioBuffer ==
    /\ At("character")
    /\ ~MidChain
    /\ Apply(Runner, GetAudioBuffer(NewFrame("getAudioBuffer", StimulusId),
                                    isPaused, StimulusId, TRUE))
    /\ Goto("buffer")
    /\ event' = NoEvent
    /\ UNCHANGED <<sequence, bvars, results, localStore, posts>>

\* getAudioBuffer returned: source.start(0), then waitForResponse.
RunStart ==
    /\ At("buffer") /\ Returned
    /\ runner' = [runner EXCEPT !.pc = "response",
                                !.waited = @ \/ frames[Runner].nPause > 0]
    /\ frames' = [frames EXCEPT ![Runner] = IdleFrame]
    /\ event' = [op |-> "start", id |-> StimulusId, buffer |-> frames[Runner].val,
                 cached |-> audioBuffers[StimulusId] # 0]
    /\ UNCHANGED <<pvars, isPaused, sequence, bvars, results, localStore, posts>>

\* The participant responds or the timeout fires: the trial result is built,
\* pushed, and submitTrialResult posts it.
RunRespond ==
    /\ At("response")
    /\ results' = Append(results, [trialNumber |-> runner.i + 1,
                                   stimulusId |-> StimulusId,
                                   wasPaused |-> isPaused])
    /\ Goto("submit")
    /\ posts' = Append(posts, [trialNumber |-> runner.i + 1, st |-> "pending"])
    /\ event' = [op |-> "result", wasPaused |-> isPaused,
                 waited |-> runner.waited]
    /\ UNCHANGED <<pvars, isPaused, frames, sequence, bvars, localStore>>

\* if (i % 10 === 0 && i > 0) clearOldBuffers(sequence, i); showBlank(500); i++.
EvictDue(i) == i % EvictEvery = 0 /\ i > 0

RunAfterSubmit ==
    /\ ~MidChain
    /\ IF EvictDue(runner.i)
       THEN /\ ClearOldBuffers(sequence, runner.i, KeepBehindDefault)
            /\ event' = [op |-> "clearOldBuffers",
                         n |-> Cardinality(CachedIds \
                                  KeepStimuli(sequence, runner.i, KeepBehindDefault))]
       ELSE /\ UNCHANGED pvars
            /\ event' = NoEvent
    /\ runner' = [pc |-> "blank", i |-> runner.i + 1, waited |-> FALSE]
    /\ UNCHANGED <<isPaused, frames, sequence, bvars, results>>

\* The outcome of the last POST is recorded.
Settled(st) == [posts EXCEPT ![Len(posts)].st = st]

\* The POST of the trial succeeded.
RunSubmitted ==
    /\ At("submit")
    /\ RunAfterSubmit
    /\ posts' = Settled("accepted")
    /\ UNCHANGED localStore

\* The POST failed or answered with an error status: saveToLocalStorage.
RunSubmitFailed ==
    /\ At("submit")
    /\ runner.i >= Len(sequence) - MaxSubmitFailures
    /\ RunAfterSubmit
    /\ posts' = Settled("stored")
    /\ localStore' = localStore \cup {runner.i + 1}

\* The POST failed and localStorage.setItem threw: saveToLocalStorage catches
\* and logs, nothing is stored.
RunSubmitLost ==
    /\ At("submit")
    /\ runner.i >= Len(sequence) - MaxSubmitFailures
    /\ RunAfterSubmit
    /\ posts' = Settled("lost")
    /\ UNCHANGED localStore

\* The loop is over: updateProgress(100), showEnd.
RunEnd ==
    /\ At("blank") /\ runner.i >= Len(sequence)
    /\ Goto("end")
    /\ event' = NoEvent
    /\ UNCHANGED <<pvars, isPaused, frames, sequence, bvars, results, localStore, posts>>

\* response.ok
Ok(status) == status >= 200 /\ status <= 299

\* The worker's routes other than POST /api/trial: the status it answers.
ApiPaths == {"/api/trial", "/api/complete"}
Route(method, path) ==
    IF method = "OPTIONS" THEN 200
    ELSE IF method = "GET" /\ path \notin ApiPaths THEN 200
    ELSE 404

\* markExperimentComplete: the worker answers the POST of /api/complete;
\* cleanupLocalStorage when the response is ok.
RunComplete ==
    /\ At("end")
    /\ Goto("finished")
    /\ localStore' = IF Ok(Route("POST", "/api/complete")) THEN {} ELSE localStore
    /\ event' = [op |-> "complete", status |-> Route("POST", "/api/complete")]
    /\ UNCHANGED <<pvars, isPaused, frames, sequence, bvars, results, posts>>

\* markExperimentComplete: the fetch rejected; the error is logged, nothing
\* is thrown.
RunCompleteFailed ==
    /\ At("end")
    /\ Goto("finished")
    /\ event' = NoEvent
    /\ UNCHANGED <<pvars, isPaused, frames, sequence, bvars, results, localStore, posts>>

Init ==
    /\ InitPreloader
    /\ sequence \in RunnerSequences
    /\ runner = [pc |-> "start", i |-> 0, waited |-> FALSE]

Next ==
    \/ LoadStep
    \/ GetAudioBufferStep
    \/ EnsureNextTrialReadyStep
    \/ PreloadInitialStep
    \/ RunInit
    \/ RunInitFetchFails
    \/ RunThrows
    \/ RunPreloaded
    \/ RunConsent
    \/ RunInstructions
    \/ RunEnsure
    \/ RunPreloadAhead
    \/ RunGetAudioBuffer
    \/ RunStart
    \/ RunRespond
    \/ RunSubmitted
    \/ RunSubmitFailed
    \/ RunSubmitLost
    \/ RunEnd
    \/ RunComplete
    \/ RunCompleteFailed

Spec == Init /\ [][Next]_vars

\* ---------------------------------------------------------- the worker
\* One request per slot; the handler runs up to each await, the statements
\* of saveTrial take effect one by one, requests interleave between them.
cvars == <<pvars, isPaused, frames, sequence, rvars>>

Stored(sessionId, trialNumber) ==
    \E k \in DOMAIN db.trials :
       /\ db.trials[k].session_id = sessionId
       /\ db.trials[k].trial_number = trialNumber

HasSession(id) == id \in DOMAIN db.sessions

Respond(r, status, err) ==
    requests' = [requests EXCEPT ![r].pc = "done", ![r].status = status,
                                 ![r].err = err, ![r].timestamp = Missing]

Arrives(r) ==
    /\ requests[r].pc = "idle"
    /\ \A q \in Requests : q < r => requests[q].pc # "idle"

\* A request that is not POST /api/trial: OPTIONS, a static file, or 404.
OtherRequest(r, method, path) ==
    /\ Arrives(r)
    /\ ~(method = "POST" /\ path = "/api/trial")
    /\ requests' = [requests EXCEPT ![r] =
                       [IdleRequest EXCEPT !.pc = "done",
                                           !.status = Route(method, path)]]
    /\ event' = [op |-> "route", method |-> method, path |-> path,
                 status |-> Route(method, path)]
    /\ UNCHANGED <<cvars, db>>

\* POST /api/trial whose body request.json() cannot parse: caught, 500.
PostMalformed(r) ==
    /\ Arrives(r)
    /\ requests' = [requests EXCEPT ![r] =
                       [IdleRequest EXCEPT !.pc = "done", !.status = 500,
                                           !.err = "json"]]
    /\ event' = NoEvent
    /\ UNCHANGED <<cvars, db>>

\* POST /api/trial with a parsed body: 400 when sessionId or trial is
\* missing, else saveTrial up to its first statement.
PostTrial(r, sessionId, trialNumber, timestamp) ==
    /\ Arrives(r)
    /\ LET q == [IdleRequest EXCEPT !.sessionId = sessionId,
                                    !.trialNumber = trialNumber,
                                    !.timestamp = timestamp]
       IN  requests' = [requests EXCEPT ![r] =
              IF sessionId = Missing \/ trialNumber = Missing
              THEN [IdleRequest EXCEPT !.pc = "done", !.status = 400,
                                       !.err = "invalid"]
              ELSE [q EXCEPT !.pc = "session",
                             !.dup = Stored(sessionId, trialNumber)]]
    /\ event' = NoEvent
    /\ UNCHANGED <<cvars, db>>

\* INSERT OR REPLACE INTO sessions: the row of the id is made anew.
InsertSession_Replace(r) ==
    /\ requests[r].pc = "session"
    /\ LET id == requests[r].sessionId
       IN  db' = [db EXCEPT !.sessions =
                    [i \in DOMAIN db.sessions \cup {id} |->
                       IF i = id
                       THEN [first_trial_at |-> requests[r].timestamp,
                             last_trial_at |-> Missing]
                       ELSE db.sessions[i]]]
    /\ requests' = [requests EXCEPT ![r].pc = "trial"]
    /\ event' = NoEvent
    /\ UNCHANGED cvars

\* INSERT OR IGNORE INTO sessions: a row is made only when none has the id.
InsertSession(r) ==
    /\ requests[r].pc = "session"
    /\ LET id == requests[r].sessionId
       IN  db' = IF HasSession(id)
                 THEN db
                 ELSE [db EXCEPT !.sessions =
                         [i \in DOMAIN db.sessions \cup {id} |->
                            IF i = id
                            THEN [first_trial_at |-> requests[r].timestamp,
                                  last_trial_at |-> Missing]
                            ELSE db.sessions[i]]]
    /\ requests' = [requests EXCEPT ![r].pc = "trial"]
    /\ event' = NoEvent
    /\ UNCHANGED cvars

\* INSERT INTO trials: UNIQUE(session_id, trial_number) rejects a second row
\* of the same key; saveTrial rethrows and the handler answers 500.
InsertTrial(r) ==
    /\ requests[r].pc = "trial"
    /\ IF Stored(requests[r].sessionId, requests[r].trialNumber)
       THEN /\ Respond(r, 500, "unique")
            /\ UNCHANGED db
       ELSE /\ db' = [db EXCEPT !.trials =
                        Append(@, [session_id |-> requests[r].sessionId,
                                   trial_number |-> requests[r].trialNumber,
                                   timestamp |-> requests[r].timestamp])]
            /\ requests' = [requests EXCEPT ![r].pc = "update"]
    /\ event' = NoEvent
    /\ UNCHANGED cvars

\* UPDATE sessions SET last_trial_at, then the success response.
UpdateSession(r) ==
    /\ requests[r].pc = "update"
    /\ db' = [db EXCEPT !.sessions[requests[r].sessionId].last_trial_at =
                           requests[r].timestamp]
    /\ Respond(r, 200, "none")
    /\ event' = NoEvent
    /\ UNCHANGED cvars

\* A statement of saveTrial fails in the database: rethrown, 500.
StatementFails(r) ==
    /\ requests[r].pc \in {"session", "trial", "update"}
    /\ Respond(r, 500, "db")
    /\ event' = NoEvent
    /\ UNCHANGED <<cvars, db>>

Methods == {"GET", "POST", "OPTIONS"}
Paths == ApiPaths \cup {"/index.html"}

InitBackend ==
    /\ InitPreloader
    /\ sequence \in WindowSequences
    /\ runner = RunnerOff

NextBackend ==
    \/ \E r \in Requests, m \in Methods, p \in Paths : OtherRequest(r, m, p)
    \/ \E r \in Requests : PostMalformed(r)
    \/ \E r \in Requests, id \in SessionIds \cup {Missing},
          n \in TrialNumbers \cup {Missing}, t \in Timestamps :
          PostTrial(r, id, n, t)
    \/ \E r \in Requests : InsertSession(r)
    \/ \E r \in Requests : InsertTrial(r)
    \/ \E r \in Requests : UpdateSession(r)
    \/ \E r \in Requests : StatementFails(r)

SpecBackend == InitBackend /\ [][NextBackend]_vars

\* ------------------------------------------------------------- shuffle
\* [...Array(n).keys()].map((i) => i + 1)
OneToN(n) == [k \in 1..n |-> k]

\* The values Math.floor(Math.random() * (i + 1)) can take, for each i of
\* the loop of shuffle.
RandomChoices(n) == {js \in [1..(n - 1) -> 0..(n - 1)] : \A i \in 1..(n - 1) : js[i] <= i}

\* A swap that copies one way only.
Swap_Overwrite(arr, i, j) == [arr EXCEPT ![i + 1] = arr[j + 1]]

\* [shuffled[i], shuffled[j]] = [shuffled[j], shuffled[i]], indexes from 0.
Swap(arr, i, j) == [arr EXCEPT ![i + 1] = arr[j + 1], ![j + 1] = arr[i + 1]]

RECURSIVE ShuffleLoop(_, _, _)
ShuffleLoop(shuffled, i, js) ==
    IF i > 0 THEN ShuffleLoop(Swap(shuffled, i, js[i]), i - 1, js) ELSE shuffled

Shuffle(array, js) == ShuffleLoop(array, Len(array) - 1, js)

\* init from the constructor's empty sequence: characters.json is read and
\* this.sequence = this.shuffle(...) is assigned, once.
RunShuffle ==
    /\ At("boot")
    /\ \E js \in RandomChoices(ShuffleLen) :
          sequence' = Shuffle(OneToN(ShuffleLen), js)
    /\ Goto("start")
    /\ event' = NoEvent
    /\ UNCHANGED <<pvars, isPaused, frames, bvars, results, localStore, posts>>

InitShuffle ==
    /\ InitPreloader
    /\ sequence = <<>>
    /\ runner = [pc |-> "boot", i |-> 0, waited |-> FALSE]

NextShuffle ==
    \/ RunShuffle
    \/ LoadStep
    \/ GetAudioBufferStep
    \/ EnsureNextTrialReadyStep
    \/ PreloadInitialStep
    \/ RunInit
    \/ RunThrows
    \/ RunPreloaded
    \/ RunConsent
    \/ RunInstructions
    \/ RunEnsure
    \/ RunPreloadAhead
    \/ RunGetAudioBuffer
    \/ RunStart
    \/ RunRespond
    \/ RunSubmitted
    \/ RunSubmitFailed
    \/ RunSubmitLost
    \/ RunEnd
    \/ RunComplete
    \/ RunCompleteFailed

SpecShuffle == InitShuffle /\ [][NextShuffle]_vars

\* ================================================================ claims
Unsettled(h) == loads[h].st \in {"fetching", "decoded", "caught"}
WindowBound == BufferAhead + KeepBehindDefault + EvictMargin

\* C1: whenever the runner starts the playback of a trial (source.start),
\* the buffer of the trial's stimulus id is in the cache at that moment, and
\* it is the buffer handed to the audio source.
C1_PlaybackBufferCached ==
    event.op = "start" =>
        /\ audioBuffers[event.id] # 0
        /\ audioBuffers[event.id] = event.buffer

\* A playback started after the runner's eviction at trial index EvictEvery.
C1_Witness ==
    /\ event.op = "start"
    /\ runner.i = EvictEvery + 1
    /\ audioBuffers[sequence[1]] = 0

\* C2 (as claimed): loadAudio calls for an id that overlap an unsettled load
\* of that id build no second fetch chain, and a caller that finds a promise
\* stored for the id waits on that very promise.
C2_OneFetchPerId ==
    /\ \A h1, h2 \in DOMAIN loads :
          (h1 # h2 /\ loads[h1].id = loads[h2].id)
             => ~(Unsettled(h1) /\ Unsettled(h2))
    /\ \A c \in Callers :
          (frames[c].op = "loadAudio" /\ frames[c].lh # 0)
             => frames[c].h = frames[c].lh

\* C3: an ensureNextTrialReady call inside the sequence that has returned
\* has its buffer in the cache; one that has thrown has thrown the load
\* failure of its id; one past the end returns at once, with no notification
\* and no fetch.
C3_EnsureReturnsCached ==
    \A c \in Callers :
       LET f == frames[c]
       IN  (f.op = "ensureNextTrialReady" /\ f.pc = "done") =>
              /\ (f.res = "ok" /\ f.idx < Len(sequence))
                    => audioBuffers[sequence[f.idx + 1]] # 0
              /\ f.res = "err"
                    => /\ f.idx < Len(sequence)
                       /\ f.id = sequence[f.idx + 1]
                       /\ f.id \in failedLoads
                       /\ f.err \in {"LoadFailed", "PreviouslyFailed"}
              /\ f.idx >= Len(sequence)
                    => f.res = "ok" /\ f.nPause = 0 /\ f.nl = 0 /\ f.br = "past"
    /\ LET past == Len(sequence)
           call == [NewFrame("ensureNextTrialReady", 0) EXCEPT !.idx = past]
           r == EnsureNextTrialReady(call, sequence, past)
       IN  /\ r.f.pc = "done" /\ r.f.res = "ok"
           /\ r.st = PState /\ r.paused = isPaused

\* An ensureNextTrialReady call that had to wait and has returned.
C3_Witness ==
    \E c \in Callers :
       /\ frames[c].op = "ensureNextTrialReady"
       /\ frames[c].pc = "done" /\ frames[c].res = "ok"
       /\ frames[c].nPause = 1 /\ frames[c].nResume = 1
       /\ audioBuffers[frames[c].id] # 0

\* C4 (as claimed): a loadAudio or getAudioBuffer call made for an id of the
\* failed set builds no fetch chain and ends with PreviouslyFailed.
C4_FailedAlwaysPreviouslyFailed ==
    \A c \in Callers :
       LET f == frames[c]
       IN  (f.op \in {"loadAudio", "getAudioBuffer"} /\ f.fa) =>
              /\ f.nl = 0
              /\ f.pc = "done" => (f.res = "err" /\ f.err = "PreviouslyFailed")

\* C4 (amended): a call made for an id of the failed set builds no fetch
\* chain and finds no load of the id listed in flight; loadAudio ends with
\* PreviouslyFailed; getAudioBuffer ends with PreviouslyFailed when the id is
\* not cached, and returns the cached buffer at once when it is.
C4_FailedNoNewFetch ==
    \A c \in Callers :
       LET f == frames[c]
       IN  (f.op \in {"loadAudio", "getAudioBuffer"} /\ f.fa) =>
              /\ f.nl = 0
              /\ (f.op = "loadAudio" /\ f.pc = "done")
                    => (f.res = "err" /\ f.err = "PreviouslyFailed")
              /\ (f.op = "getAudioBuffer" /\ f.br = "emergency" /\ f.pc = "done")
                    => (f.res = "err" /\ f.err = "PreviouslyFailed")
              /\ (f.op = "getAudioBuffer" /\ f.br = "cached")
                    => (f.pc = "done" /\ f.res = "ok" /\ f.val # 0)
              /\ f.lh = 0
              /\ f.op = "getAudioBuffer" => f.br \in {"cached", "emergency"}

\* getAudioBuffer called for an id that is in the failed set and cached.
C4_Witness ==
    \E c, d \in Callers :
       /\ frames[c].op = "getAudioBuffer" /\ frames[c].fa
       /\ frames[c].br = "cached" /\ frames[c].res = "ok"
       /\ frames[d].op = "loadAudio" /\ frames[d].err = "LoadFailed"

\* C5 (as claimed): when the runner has stopped on the failure of a load it
\* was waiting for, the waiting overlay is off.
C5_NoOverlayAfterFailure == runner.pc = "failed" => ~isPaused

\* C6: when preloadInitial has returned, every id of the first window is in
\* the cache, and getAudioBuffer for it returns the cached buffer at once,
\* with no notification and no fetch.
C6_InitialWindowCached ==
    (runner.pc = "preload" /\ Returned) =>
        \A k \in 1..Min(BufferAhead, Len(sequence)) :
           LET id == sequence[k]
               r == GetAudioBuffer(NewFrame("getAudioBuffer", id), isPaused, id, TRUE)
           IN  /\ audioBuffers[id] # 0
               /\ r.f.pc = "done" /\ r.f.res = "ok" /\ r.f.val = audioBuffers[id]
               /\ r.f.nPause = 0 /\ r.paused = isPaused
               /\ r.st.loads = loads /\ r.st.lp = loadingPromises

\* preloadInitial has returned to init.
C6_Witness ==
    /\ runner.pc = "preload" /\ Returned
    /\ Len(frames[Runner].hs) = BufferAhead

\* C7: once the load of an id of the first window has failed, preloadInitial
\* does not return; it throws the aggregate error, and no trial is run and
\* no result is recorded or stored.
InitialFailed ==
    \E k \in 1..Min(BufferAhead, Len(sequence)) : sequence[k] \in failedLoads

C7_InitialFailureIsFatal ==
    InitialFailed =>
        /\ runner.pc \in {"preload", "failed"}
        /\ ~Returned
        /\ frames[Runner].pc = "done" => frames[Runner].err = "InitialBatchFailed"
        /\ event.op = "throw" => event.err = "InitialBatchFailed"
        /\ results = <<>> /\ localStore = {}

\* init has rejected with the aggregate error.
C7_Witness ==
    /\ InitialFailed
    /\ runner.pc = "failed"
    /\ event.op = "throw" /\ event.err = "InitialBatchFailed"

\* C8: clearOldBuffers(sequence, idx, keepBehind) leaves in the cache exactly
\* the entries it held whose id stands at a position of
\* [idx - keepBehind, idx + windowSize + margin) of the sequence.
InKeepRange(id, idx, keepBehind) ==
    \E p \in 0..(Len(sequence) - 1) :
       /\ p >= idx - keepBehind
       /\ p < idx + BufferAhead + EvictMargin
       /\ sequence[p + 1] = id

C8_EvictKeepsExactlyRange ==
    [][event'.op = "clearOldBuffers" =>
          \A id \in Ids :
             audioBuffers'[id] =
                IF InKeepRange(id, event'.idx, event'.kb)
                THEN audioBuffers[id] ELSE 0]_vars

\* An eviction with keepBehind > 0 that removed entries on both sides of the
\* range and kept others.
C8_Witness ==
    /\ event.op = "clearOldBuffers"
    /\ event.kb > 0 /\ event.idx > event.kb
    /\ event.n > 1
    /\ audioBuffers[sequence[1]] = 0
    /\ audioBuffers[sequence[Len(sequence)]] = 0
    /\ audioBuffers[sequence[event.idx - event.kb + 1]] # 0
    /\ Cardinality(CachedIds) > 1

\* C9 (as claimed): the cache never holds more than
\* windowSize + keepBehind + margin buffers during a run.
C9_CacheAtMostWindowBound == Cardinality(CachedIds) <= WindowBound

\* C9 (amended): every cached id stands at a position of
\* [E - keepBehind, i + 2 * windowSize) of the sequence, E being the index
\* of the runner's last eviction (no lower limit before the first) and i the
\* loop index; the cache holds at most windowSize + keepBehind + margin
\* buffers right after an eviction, and at most
\* evictEvery + keepBehind + 2 * windowSize buffers at every moment.
PeakBound == EvictEvery + KeepBehindDefault + BufferAhead + BufferAhead
PositionOf(id) == CHOOSE p \in 0..(Len(sequence) - 1) : sequence[p + 1] = id
LastEviction == IF runner.i > EvictEvery
                THEN EvictEvery * ((runner.i - 1) \div EvictEvery) ELSE 0
LowestKept == IF runner.i > EvictEvery THEN LastEviction - KeepBehindDefault ELSE 0

C9_CacheWithinEvictionWindow ==
    /\ \A id \in CachedIds :
          /\ PositionOf(id) >= LowestKept
          /\ PositionOf(id) < runner.i + BufferAhead + BufferAhead
    /\ event.op = "clearOldBuffers" => Cardinality(CachedIds) <= WindowBound
    /\ Cardinality(CachedIds) <= PeakBound

\* The runner's second eviction: it found the cache at its peak and left
\* windowSize + keepBehind + margin buffers.
C9_Witness ==
    /\ event.op = "clearOldBuffers"
    /\ runner.i = EvictEvery + EvictEvery + 1
    /\ event.n = PeakBound - WindowBound
    /\ Cardinality(CachedIds) = WindowBound

\* C10 (as claimed): preloadAhead(sequence, idx) builds one fetch chain for
\* each id of positions [idx + windowSize, idx + 2 * windowSize) that is
\* neither cached nor listed in flight (nor failed before: loadAudio then
\* rejects without a fetch), and no other; it suspends no caller.
AheadIds(idx) ==
    { sequence[p + 1] :
        p \in { q \in 0..(Len(sequence) - 1) :
                  /\ q >= idx + BufferAhead
                  /\ q < idx + BufferAhead + BufferAhead
                  /\ audioBuffers[sequence[q + 1]] = 0
                  /\ loadingPromises[sequence[q + 1]] = 0
                  /\ sequence[q + 1] \notin failedLoads } }

C10_PreloadAheadLoadsExactlyWindow ==
    [][\A idx \in Indexes :
          ApiPreloadAhead(idx, MaxWindowLoads) =>
             LET new == SubSeq(loads', Len(loads) + 1, Len(loads'))
             IN  /\ {new[k].id : k \in DOMAIN new} = AheadIds(idx)
                 /\ Len(new) = Cardinality(AheadIds(idx))
                 /\ \A k \in DOMAIN new : new[k].st = "fetching"
                 /\ frames' = frames]_vars

\* C11 (as claimed): a getAudioBuffer call that finds a load of its id listed
\* in flight makes, when it announces, one pause notification at the call and
\* one resume notification when the load has settled, whatever the outcome;
\* when it does not announce it makes neither.
C11_OnePauseOneResume ==
    \A c \in Callers :
       LET f == frames[c]
       IN  (f.op = "getAudioBuffer" /\ f.br = "inflight") =>
              IF f.announce
              THEN /\ f.nPause = 1 /\ f.pid = f.id
                   /\ f.nResume = (IF f.pc = "done" THEN 1 ELSE 0)
              ELSE f.nPause = 0 /\ f.nResume = 0

\* C12: an ensureNextTrialReady call that finds its buffer cached (or its
\* index past the end) makes no notification; one that does not makes one
\* pause notification, carrying the id, before it waits, makes no resume
\* notification while it waits, and makes one resume notification when it
\* returns, the buffer being cached by then; the getAudioBuffer inside it
\* makes none.
C12_EnsureNotifiesOnce ==
    \A c \in Callers :
       LET f == frames[c]
       IN  f.op = "ensureNextTrialReady" =>
              IF f.br \in {"past", "ready"}
              THEN f.nPause = 0 /\ f.nResume = 0 /\ f.pc = "done"
              ELSE /\ f.br \in {"inflight", "emergency"}
                   /\ ~f.announce
                   /\ f.nPause = 1 /\ f.pid = sequence[f.idx + 1]
                   /\ f.nResume = (IF f.pc = "done" /\ f.res = "ok" THEN 1 ELSE 0)
                   /\ f.nResume = 1 => audioBuffers[f.pid] # 0

\* An ensureNextTrialReady call that had to start the load itself, and has
\* returned after one pause and one resume.
C12_Witness ==
    \E c \in Callers :
       /\ frames[c].op = "ensureNextTrialReady"
       /\ frames[c].br = "emergency"
       /\ frames[c].pc = "done" /\ frames[c].res = "ok"
       /\ frames[c].nPause = 1 /\ frames[c].nResume = 1
       /\ ~isPaused

\* C13 (as claimed): the pause flag recorded in a trial's result is true if
\* and only if the ensureNextTrialReady or the getAudioBuffer call of that
\* trial made a pause notification.
C13_WasPausedIffWaited ==
    event.op = "result" => (event.wasPaused <=> event.waited)

\* The stimulus of trial runner.i + 1 is on the screen.
StimulusShown == runner.pc \in {"character", "buffer", "response"}

\* C14 (as claimed): every result is posted once, the posts carry the trial
\* numbers 1, 2, ... in this order, and while the stimulus of a trial is shown
\* the submission of every earlier trial has settled, accepted by the server
\* or stored locally.
C14_SubmittedOnceInOrder ==
    /\ Len(posts) = Len(results)
    /\ \A k \in 1..Len(posts) :
          posts[k].trialNumber = k /\ results[k].trialNumber = k
    /\ StimulusShown =>
          /\ Len(posts) = runner.i
          /\ \A k \in 1..Len(posts) : posts[k].st \in {"accepted", "stored"}

\* The part of C14 that does not depend on the local store: one post per
\* result, in order, none pending while a later stimulus is shown.
SubmittedOnceInOrder ==
    /\ Len(posts) = Len(results)
    /\ \A k \in 1..Len(posts) :
          posts[k].trialNumber = k /\ results[k].trialNumber = k
    /\ StimulusShown =>
          /\ Len(posts) = runner.i
          /\ \A k \in 1..Len(posts) : posts[k].st # "pending"

\* C15 (as claimed): the trial table never holds two rows of one
\* (session id, trial number), and a submission of a key that is already
\* stored is answered with success unless the database itself failed.
C15_RepeatedSubmissionAccepted ==
    /\ \A j, k \in DOMAIN db.trials :
          (/\ db.trials[j].session_id = db.trials[k].session_id
           /\ db.trials[j].trial_number = db.trials[k].trial_number) => j = k
    /\ \A r \in Requests :
          (requests[r].pc = "done" /\ requests[r].dup /\ requests[r].err # "db")
             => Ok(requests[r].status)

\* The part of C15 that the UNIQUE constraint gives: one row per key.
OneRowPerKey ==
    \A j, k \in DOMAIN db.trials :
       (/\ db.trials[j].session_id = db.trials[k].session_id
        /\ db.trials[j].trial_number = db.trials[k].trial_number) => j = k

\* C16 (as claimed): a trial whose submission failed is held in the local
\* store from then on (nothing delivers it later, so it is never to be
\* removed), and the runner has gone on past that trial.
C16_FailedSubmissionStored ==
    \A k \in 1..Len(posts) :
       posts[k].st \in {"stored", "lost"} =>
          /\ k \in localStore
          /\ runner.i >= k

\* The parts of C16 that hold: a failed submission never stops the runner,
\* and a result that was stored locally is never removed.
FailedSubmissionRecovered ==
    \A k \in 1..Len(posts) :
       /\ posts[k].st \in {"stored", "lost"} => runner.i >= k
       /\ posts[k].st = "stored" => k \in localStore

\* The loads in flight: fetch chains started and not settled.
InFlight == Cardinality({h \in DOMAIN loads : Unsettled(h)})

\* C17 (as claimed): at most bufferAhead + 1 loads are in flight.
C17_InFlightAtMostWindowPlusOne == InFlight <= BufferAhead + 1

\* C17 (amended): in a run of the trial runner at most 2 * bufferAhead - 1
\* loads are in flight at every moment (5 with bufferAhead = 3): the loads
\* of two successive look-ahead batches overlap, and no cap is applied.
C17_InFlightAtMostTwoWindows == InFlight <= 2 * BufferAhead - 1

\* Five loads in flight while a trial is running.
C17_Witness ==
    /\ InFlight = 2 * BufferAhead - 1
    /\ runner.pc = "character"

\* The positions (0-based) of the ids in the failed set.
FailedPositions ==
    {p \in 0..(Len(sequence) - 1) : sequence[p + 1] \in failedLoads}

\* C18: the failure of a load started by preloadAhead (a position from
\* bufferAhead on) puts the id in the failed set and stops nothing by
\* itself: the runner stops only when it calls ensureNextTrialReady or
\* getAudioBuffer for a failed id, which is then the first failed position,
\* every trial before that position has run and its submission has settled,
\* and the runner never gets past a failed position.
C18_BackgroundFailureSurfacesWhenNeeded ==
    ~InitialFailed =>
       /\ \A p \in FailedPositions : runner.i <= p
       /\ (runner.pc = "failed" /\ FailedPositions # {}) =>
             /\ runner.i \in FailedPositions
             /\ Len(results) = runner.i
             /\ Len(posts) = runner.i
             /\ \A k \in 1..Len(posts) : posts[k].st # "pending"
       /\ (event.op = "throw" /\ FailedPositions # {}) =>
             /\ event.err \in {"LoadFailed", "PreviouslyFailed"}
             /\ StimulusId \in failedLoads
       /\ (runner.pc \in {"ensure", "buffer"} /\ Threw) =>
             /\ StimulusId \in failedLoads
             /\ frames[Runner].id = StimulusId \/ frames[Runner].idx = runner.i

\* A look-ahead load failed while an earlier trial was running, the run
\* went on, and it stopped with PreviouslyFailed when it came to that id,
\* all earlier trials submitted.
C18_Witness ==
    /\ ~InitialFailed
    /\ runner.pc = "failed"
    /\ event.op = "throw" /\ event.err = "PreviouslyFailed"
    /\ runner.i > BufferAhead
    /\ sequence[runner.i + 1] \in failedLoads
    /\ Len(posts) = runner.i

\* C19 (as claimed): a getAudioBuffer call made while a fetch of its id is
\* outstanding and the id is not cached starts no load: it waits for the
\* outstanding load and fails only with that load's error.
C19_WaitsForOutstandingLoad ==
    \A c \in Callers :
       LET f == frames[c]
       IN  (f.op = "getAudioBuffer" /\ f.uf) =>
              /\ f.br = "inflight"
              /\ f.nl = 0
              /\ (f.pc = "done" /\ f.res = "err") => f.err = "LoadFailed"

\* The part of C19 that holds: a call that finds its id listed in the
\* loadingPromises map starts no load and settles as the listed load does.
WaitsForListedLoad ==
    \A c \in Callers :
       LET f == frames[c]
       IN  (f.op = "getAudioBuffer" /\ f.lh # 0 /\ f.br # "cached") =>
              /\ f.br = "inflight" /\ f.nl = 0 /\ f.h = f.lh
              /\ (f.pc = "done" /\ f.res = "err") =>
                     (f.err = "LoadFailed" /\ f.errh = f.lh)
              /\ (f.pc = "done" /\ f.res = "ok") => f.val = f.lh

\* C20: a step gives the cache a new entry for an id only when it is the
\* successful completion of a fetch and decode of that id, whose buffer the
\* entry then holds; a step in which a load fails leaves the cache as it is
\* and puts the id in the failed set.
C20_CachedOnlyBySuccessfulLoad ==
    [][/\ \A id \in Ids :
             audioBuffers'[id] \notin {0, audioBuffers[id]} =>
                LET h == audioBuffers'[id]
                IN  /\ h \in DOMAIN loads
                    /\ loads[h].id = id
                    /\ loads[h].st = "fetching" /\ loads'[h].st = "decoded"
       /\ \A h \in DOMAIN loads :
             (loads[h].st = "fetching" /\ loads'[h].st = "caught") =>
                /\ audioBuffers' = audioBuffers
                /\ loads[h].id \in failedLoads']_vars

\* One load has succeeded and its id is cached, another has failed and its
\* id is in the failed set, not in the cache.
C20_Witness ==
    /\ \E h \in DOMAIN loads :
          loads[h].st = "resolved" /\ audioBuffers[loads[h].id] = h
    /\ \E h \in DOMAIN loads :
          /\ loads[h].st = "thrown"
          /\ loads[h].id \in failedLoads
          /\ audioBuffers[loads[h].id] = 0

\* Each of 1..n occurs at exactly one position of seq.
IsPermutation(seq, n) ==
    /\ Len(seq) = n
    /\ \A id \in 1..n : Cardinality({p \in 1..Len(seq) : seq[p] = id}) = 1

\* C21: whatever the random choices, the sequence assigned at the start of
\* init is a permutation of 1..N, and no later step of the session changes
\* it.
C21_SequenceIsFixedPermutation ==
    /\ [](runner.pc # "boot" => IsPermutation(sequence, ShuffleLen))
    /\ [][runner.pc # "boot" => sequence' = sequence]_vars

\* A run has gone through all its trials over a shuffled sequence that is
\* not in the order 1..N.
C21_Witness ==
    /\ runner.pc = "finished"
    /\ Len(results) = ShuffleLen
    /\ sequence # OneToN(ShuffleLen)
    /\ \A k \in 1..ShuffleLen : results[k].stimulusId = sequence[k]

\* C22: every trial row refers to a session row that exists, a request
\* that is about to insert or has inserted its trial row finds its session
\* row in place, and no step removes a session row or changes the
\* first_trial_at it was created with.
C22_TrialsReferToKeptSessions ==
    /\ [](/\ \A k \in DOMAIN db.trials : HasSession(db.trials[k].session_id)
          /\ \A r \in Requests :
                requests[r].pc \in {"trial", "update"}
                   => HasSession(requests[r].sessionId))
    /\ [][\A id \in SessionIds :
             HasSession(id) =>
                /\ id \in DOMAIN db'.sessions
                /\ db'.sessions[id].first_trial_at = db.sessions[id].first_trial_at]_vars

\* Two submissions of one session with different timestamps are stored: the
\* session row still has the first timestamp, and the last one beside it.
C22_Witness ==
    \E id \in SessionIds :
       /\ HasSession(id)
       /\ db.sessions[id].last_trial_at # Missing
       /\ db.sessions[id].first_trial_at # db.sessions[id].last_trial_at
       /\ Len(db.trials) = 2
       /\ \A k \in DOMAIN db.trials : db.trials[k].session_id = id
       /\ \A r \in Requests : requests[r].pc = "done" /\ Ok(requests[r].status)

\* C23 (as claimed): the completion marker is sent once, when every trial
\* of the sequence has been posted and its submission has settled, and the
\* worker answers it with success.
C23_MarkerAccepted ==
    event.op = "complete" =>
       /\ Len(posts) = Len(sequence)
       /\ \A k \in 1..Len(posts) : posts[k].st # "pending"
       /\ runner.pc = "finished"
       /\ Ok(event.status)

\* The parts of C23 that hold: the marker is sent after all results, once,
\* and neither its rejection nor a network failure stops init with an error.
MarkerSentOnceAtEnd ==
    /\ event.op = "complete" =>
          /\ Len(posts) = Len(sequence)
          /\ \A k \in 1..Len(posts) : posts[k].st # "pending"
          /\ runner.pc = "finished"
    /\ runner.pc \in {"end", "finished"} => Len(posts) = Len(sequence)
    /\ [][runner.pc = "end" => runner'.pc \in {"end", "finished"}]_vars
    /\ [][runner.pc = "finished" => runner' = runner]_vars

\* C24: as long as no load has failed in a run of the trial runner, every
\* ensureNextTrialReady and getAudioBuffer call of the runner finds the id of
\* its trial cached or listed in flight: it takes no emergency branch and
\* starts no load, and the trial's getAudioBuffer finds the buffer cached.
C24_NoEmergencyLoad ==
    LET f == frames[Runner]
    IN  (failedLoads = {} /\ runner.pc \in {"ensure", "buffer"}) =>
           /\ f.br \in {"ready", "cached", "inflight"}
           /\ f.nl = 0
           /\ runner.pc = "buffer" => f.br = "cached"
           /\ f.br = "inflight" => f.lh # 0 /\ loads[f.lh].id = StimulusId

\* After the first eviction the runner waits for a trial's buffer on a load
\* that preloadAhead started, nothing having failed.
C24_Witness ==
    /\ failedLoads = {}
    /\ runner.pc = "ensure" /\ runner.i > EvictEvery
    /\ frames[Runner].br = "inflight"
    /\ frames[Runner].pc # "done"

\* C25 (as claimed): an id is listed in the loadingPromises map as long as
\* a fetch and decode of it has been started and has not settled, whatever
\* other loads have settled meanwhile; an id with no such load is not
\* listed.
C25_MapListsOutstandingLoads ==
    /\ \A h \in DOMAIN loads :
          Unsettled(h) => loadingPromises[loads[h].id] # 0
    /\ \A id \in Ids :
          loadingPromises[id] # 0 =>
             /\ loadingPromises[id] \in DOMAIN loads
             /\ loads[loadingPromises[id]].id = id
             /\ Unsettled(loadingPromises[id])

\* ------------------------------------------- the run when every load succeeds
\* The chains of the loads when fetch and decode succeed: the then callback,
\* then finally.
LoadSucceedsStep ==
    /\ \E h \in DOMAIN loads : FetchDecodeSucceeds(h) \/ LoadFinally(h)
    /\ event' = NoEvent
    /\ UNCHANGED <<isPaused, frames, sequence, bvars, rvars>>

\* init() from the shuffled sequence on, characters.json fetched, no load
\* failing: nothing throws.
NextLive ==
    \/ LoadSucceedsStep
    \/ GetAudioBufferStep
    \/ EnsureNextTrialReadyStep
    \/ PreloadInitialStep
    \/ RunInit
    \/ RunPreloaded
    \/ RunConsent
    \/ RunInstructions
    \/ RunEnsure
    \/ RunPreloadAhead
    \/ RunGetAudioBuffer
    \/ RunStart
    \/ RunRespond
    \/ RunSubmitted
    \/ RunSubmitFailed
    \/ RunSubmitLost
    \/ RunEnd
    \/ RunComplete
    \/ RunCompleteFailed

\* The event loop runs a job that is ready; a started fetch and decode
\* settles; the waits of the runner (the consent click, the space key, the
\* response or its timeout in waitForResponse, the answer of a POST) end.
SpecLive == Init /\ [][NextLive]_vars /\ WF_vars(NextLive)

\* C26: when every started load succeeds and every wait of the runner ends,
\* the trial runner completes all N trials: each call of ensureNextTrialReady
\* returns, and the loop ends with the waiting state off, no call of the
\* runner pending, and N trial results handed to submitTrialResult.
C26_RunnerCompletesAllTrials ==
    /\ [](runner.pc = "ensure" => <>(runner.pc = "character"))
    /\ <>(/\ runner.pc = "end"
          /\ runner.i = Len(sequence)
          /\ ~isPaused
          /\ frames[Runner] = IdleFrame
          /\ Len(results) = Len(sequence)
          /\ Len(posts) = Len(sequence))

\* The loop has ended after N trials, every stimulus loaded and none failed,
\* the waiting state off, the last result posted.
C26_Witness ==
    /\ runner.pc = "end"
    /\ failedLoads = {}
    /\ loadedCount = Len(sequence)
    /\ Len(results) = Len(sequence)
    /\ results[Len(results)].trialNumber = Len(sequence)
    /\ \A k \in DOMAIN posts : posts[k].st # "pending"
    /\ ~isPaused

====
